---- MODULE Spec2Model ----
(***************************************************************************)
(* A model of src/executor.py: CommandExecutor.run, the command line       *)
(* dispatcher, and its handlers, acting on a filesystem.                   *)
(*                                                                         *)
(* Text (a command line, a token, a path, stdout, stderr, a file's data)   *)
(* is a sequence of one-character strings.  Where the program emits text   *)
(* whose characters no claim reads (the help text, an exception's message) *)
(* the sequence holds that text as one element.                            *)
(*                                                                         *)
(* The filesystem is a function from the absolute paths that exist (each a *)
(* sequence of path components, the root being the empty sequence) to the  *)
(* entry there: a directory, or a regular file with its data.  Symbolic    *)
(* links, permissions and timestamps are not modelled.                     *)
(***************************************************************************)
EXTENDS Integers, Sequences, FiniteSets, TLC

(* ------------------------------ bounds -------------------------------- *)

\* The most entries (besides the root) of the filesystem a call starts from.
MaxEntries == 3
\* The most path operands of one command.
MaxItems == 2
\* The most words of one echo.
MaxWords == 2
\* The depth of nested copytree calls at which the interpreter gives up
\* (RecursionError); stands for sys.getrecursionlimit().
RecursionLimit == 3

(* ------------------------------- text --------------------------------- *)

\* F of the value v: binds a value that is used more than once.
With(v, F(_)) == F(v)

SP == " "
TAB == "\t"
CR == "\r"
LF == "\n"
SLASH == "/"
SQUOTE == "'"
DQUOTE == "\""
BACKSLASH == "\\"

\* str.strip() strips these (among others no input here holds).
StripChars == {SP, TAB, CR, LF}

RECURSIVE lstrip(_)
lstrip(s) ==
    IF s # <<>> /\ Head(s) \in StripChars THEN lstrip(Tail(s)) ELSE s

RECURSIVE rstrip(_)
rstrip(s) ==
    IF s # <<>> /\ s[Len(s)] \in StripChars
    THEN rstrip(SubSeq(s, 1, Len(s) - 1))
    ELSE s

\* str.strip()
strip(s) == rstrip(lstrip(s))

\* sep.join(parts)
RECURSIVE str_join(_, _)
str_join(sep, parts) ==
    IF parts = <<>> THEN <<>>
    ELSE IF Len(parts) = 1 THEN parts[1]
    ELSE parts[1] \o sep \o str_join(sep, Tail(parts))

\* s.split(sep) for a one-character sep: always at least one part.
RECURSIVE str_split(_, _)
str_split(s, sep) ==
    IF \A i \in 1..Len(s) : s[i] # sep THEN <<s>>
    ELSE With(CHOOSE k \in 1..Len(s) : s[k] = sep /\ \A j \in 1..(k - 1) : s[j] # sep,
              LAMBDA i : <<SubSeq(s, 1, i - 1)>>
                         \o str_split(SubSeq(s, i + 1, Len(s)), sep))

startswith(s, p) == Len(s) >= Len(p) /\ SubSeq(s, 1, Len(p)) = p

\* s.rstrip('/')
RECURSIVE rstrip_slash(_)
rstrip_slash(s) ==
    IF s # <<>> /\ s[Len(s)] = SLASH
    THEN rstrip_slash(SubSeq(s, 1, Len(s) - 1))
    ELSE s

\* s.rfind('/') + 1
rfind_slash1(s) ==
    IF \A i \in 1..Len(s) : s[i] # SLASH THEN 0
    ELSE CHOOSE k \in 1..Len(s) :
             s[k] = SLASH /\ \A j \in (k + 1)..Len(s) : s[j] # SLASH

\* args.index(x): the first position of x (x is in args).
index(args, x) ==
    CHOOSE k \in 1..Len(args) : args[k] = x /\ \A j \in 1..(k - 1) : args[j] # x

InSeq(x, s) == \E i \in 1..Len(s) : s[i] = x

\* The value None.
None == <<"None">>

(* ------------------------------ shlex --------------------------------- *)

\* shlex.split(s): shlex(s, posix=True) with whitespace_split and no
\* commenters, read token by token.  The lexer's state is " " (between
\* tokens), "a" (in a word), a quote character, or the escape character.
\* Returns [err |-> "" or the ValueError's message, parts |-> the tokens].
ShlexWhitespace == {SP, TAB, CR, LF}
ShlexQuotes == {SQUOTE, DQUOTE}

RECURSIVE shlex_read(_, _, _, _, _, _, _)
shlex_read(s, i, state, escapedstate, token, quoted, parts) ==
    LET eof == i > Len(s)
        c == IF eof THEN "" ELSE s[i]
        emit == IF token # <<>> \/ quoted THEN Append(parts, token) ELSE parts
    IN
    IF state = " " THEN
        IF eof THEN [err |-> "", parts |-> emit]
        ELSE IF c \in ShlexWhitespace THEN
            shlex_read(s, i + 1, " ", escapedstate, <<>>, FALSE, emit)
        ELSE IF c = BACKSLASH THEN
            shlex_read(s, i + 1, c, "a", token, quoted, parts)
        ELSE IF c \in ShlexQuotes THEN
            shlex_read(s, i + 1, c, escapedstate, token, quoted, parts)
        ELSE shlex_read(s, i + 1, "a", escapedstate, <<c>>, quoted, parts)
    ELSE IF state \in ShlexQuotes THEN
        IF eof THEN [err |-> "No closing quotation", parts |-> <<>>]
        ELSE IF c = state THEN
            shlex_read(s, i + 1, "a", escapedstate, token, TRUE, parts)
        ELSE IF c = BACKSLASH /\ state = DQUOTE THEN
            shlex_read(s, i + 1, c, state, token, TRUE, parts)
        ELSE shlex_read(s, i + 1, state, escapedstate, Append(token, c), TRUE, parts)
    ELSE IF state = BACKSLASH THEN
        IF eof THEN [err |-> "No escaped character", parts |-> <<>>]
        ELSE LET kept == IF escapedstate \in ShlexQuotes
                            /\ c # state /\ c # escapedstate
                         THEN Append(token, state) ELSE token
             IN  shlex_read(s, i + 1, escapedstate, escapedstate,
                            Append(kept, c), quoted, parts)
    ELSE \* state = "a"
        IF eof THEN [err |-> "", parts |-> emit]
        ELSE IF c \in ShlexWhitespace THEN
            shlex_read(s, i + 1, " ", escapedstate, <<>>, FALSE, emit)
        ELSE IF c \in ShlexQuotes THEN
            shlex_read(s, i + 1, c, escapedstate, token, quoted, parts)
        ELSE IF c = BACKSLASH THEN
            shlex_read(s, i + 1, c, "a", token, quoted, parts)
        ELSE shlex_read(s, i + 1, "a", escapedstate, Append(token, c), quoted, parts)

shlex_split(s) == shlex_read(s, 1, " ", " ", <<>>, FALSE, <<>>)

(* ---------------------------- os.path --------------------------------- *)

\* os.path.isabs
isabs(p) == startswith(p, <<SLASH>>)

\* os.path.join(a, b)
path_join(a, b) ==
    IF startswith(b, <<SLASH>>) THEN b
    ELSE IF a = <<>> \/ a[Len(a)] = SLASH THEN a \o b
    ELSE a \o <<SLASH>> \o b

\* normpath's loop over the components.
RECURSIVE norm_comps(_, _, _)
norm_comps(comps, new_comps, initial_slashes) ==
    IF comps = <<>> THEN new_comps
    ELSE LET comp == Head(comps)
             n == Len(new_comps)
         IN  IF comp = <<>> \/ comp = <<".">> THEN
                 norm_comps(Tail(comps), new_comps, initial_slashes)
             ELSE IF comp # <<".", ".">>
                     \/ (initial_slashes = 0 /\ n = 0)
                     \/ (n > 0 /\ new_comps[n] = <<".", ".">>) THEN
                 norm_comps(Tail(comps), Append(new_comps, comp), initial_slashes)
             ELSE IF n > 0 THEN
                 norm_comps(Tail(comps), SubSeq(new_comps, 1, n - 1), initial_slashes)
             ELSE norm_comps(Tail(comps), new_comps, initial_slashes)

\* The slashes normpath keeps at the front: two when there are exactly two.
initial_slashes(path) ==
    IF ~startswith(path, <<SLASH>>) THEN 0
    ELSE IF startswith(path, <<SLASH, SLASH>>)
            /\ ~startswith(path, <<SLASH, SLASH, SLASH>>) THEN 2
    ELSE 1

\* os.path.normpath
normpath(path) ==
    IF path = <<>> THEN <<".">>
    ELSE With(initial_slashes(path), LAMBDA n :
         With([k \in 1..n |-> SLASH]
              \o str_join(<<SLASH>>, norm_comps(str_split(path, SLASH), <<>>, n)),
              LAMBDA joined : IF joined = <<>> THEN <<".">> ELSE joined))

\* os.path.basename
basename(p) == SubSeq(p, rfind_slash1(p) + 1, Len(p))

\* os.path.dirname
dirname(p) ==
    With(SubSeq(p, 1, rfind_slash1(p)), LAMBDA head :
         IF head # <<>> /\ \E i \in 1..Len(head) : head[i] # SLASH
         THEN rstrip_slash(head) ELSE head)

\* CommandExecutor._path_resolve
path_resolve(path, cwd) ==
    normpath(IF isabs(path) THEN path ELSE path_join(cwd, path))

(* ---------------------------- filesystem ------------------------------- *)

Dir == [kind |-> "dir", data |-> <<>>]
File(data) == [kind |-> "file", data |-> data]

Root == <<>>
Front(key) == SubSeq(key, 1, Len(key) - 1)
Last(key) == key[Len(key)]
IsPrefix(k, key) == Len(k) <= Len(key) /\ SubSeq(key, 1, Len(k)) = k
Under(k, key) == IsPrefix(k, key) /\ k # key

\* The entry a path names, as the kernel walks it from the root: every
\* component but the last must be a directory, and so must the last when "."
\* or "" (a trailing slash) or ".." follows it.
RECURSIVE walk(_, _, _)
walk(fs, comps, at) ==
    IF comps = <<>> THEN [err |-> "", key |-> at]
    ELSE IF fs[at].kind # "dir" THEN [err |-> "NotADirectoryError", key |-> at]
    ELSE LET comp == Head(comps) IN
         IF comp = <<>> \/ comp = <<".">> THEN walk(fs, Tail(comps), at)
         ELSE IF comp = <<".", ".">> THEN
             walk(fs, Tail(comps), IF at = Root THEN Root ELSE Front(at))
         ELSE IF Append(at, comp) \notin DOMAIN fs THEN
             [err |-> "FileNotFoundError", key |-> Append(at, comp)]
         ELSE walk(fs, Tail(comps), Append(at, comp))

stat(fs, p) ==
    IF p = <<>> THEN [err |-> "FileNotFoundError", key |-> Root]
    ELSE walk(fs, str_split(p, SLASH), Root)

\* os.path.exists, os.path.isdir, os.path.isfile
exists(fs, p) == stat(fs, p).err = ""
isdir(fs, p) == With(stat(fs, p), LAMBDA s : s.err = "" /\ fs[s.key].kind = "dir")
isfile(fs, p) == With(stat(fs, p), LAMBDA s : s.err = "" /\ fs[s.key].kind = "file")

\* The place a path names whether or not anything is there: the paths the
\* program creates at are normalized, or a normalized path and a slash.
Key(p) == norm_comps(str_split(p, SLASH), <<>>, 1)

\* Why nothing can be created at key: an ancestor is a file, or is missing.
ParentErr(fs, key) ==
    IF key = Root THEN ""
    ELSE IF \E k \in DOMAIN fs : Under(k, key) /\ fs[k].kind = "file"
         THEN "NotADirectoryError"
    ELSE IF Front(key) \notin DOMAIN fs THEN "FileNotFoundError"
    ELSE ""

Children(fs, key) == {k \in DOMAIN fs : Len(k) = Len(key) + 1 /\ IsPrefix(key, k)}

Without(fs, keys) == [k \in (DOMAIN fs) \ keys |-> fs[k]]
Subtree(fs, key) == {k \in DOMAIN fs : IsPrefix(key, k)}

\* os.mkdir
os_mkdir(fs, key) ==
    With(ParentErr(fs, key), LAMBDA err :
         IF err # "" THEN [fs |-> fs, exc |-> err]
         ELSE IF key \in DOMAIN fs THEN [fs |-> fs, exc |-> "FileExistsError"]
         ELSE [fs |-> (key :> Dir) @@ fs, exc |-> ""])

\* Whether os.path.exists is false of the parent of key.
HeadMissing(fs, key) ==
    key # Root /\ (Front(key) \notin DOMAIN fs \/ ParentErr(fs, Front(key)) # "")

\* makedirs' last step, forgiving an existing directory whatever exist_ok.
makedirs_leaf_forgiving(fs, key, exist_ok) ==
    With(os_mkdir(fs, key), LAMBDA made :
         IF made.exc # "" /\ key \in DOMAIN fs /\ fs[key].kind = "dir"
         THEN [fs |-> fs, exc |-> ""]
         ELSE made)

\* makedirs' last step: mkdir, whose failure exist_ok forgives when the
\* directory is there.
makedirs_leaf(fs, key, exist_ok) ==
    With(os_mkdir(fs, key), LAMBDA made :
         IF made.exc # "" /\ exist_ok
            /\ key \in DOMAIN fs /\ fs[key].kind = "dir"
         THEN [fs |-> fs, exc |-> ""]
         ELSE made)

\* os.makedirs(name, exist_ok)
RECURSIVE os_makedirs(_, _, _)
os_makedirs(fs, key, exist_ok) ==
    IF ~HeadMissing(fs, key) THEN makedirs_leaf(fs, key, exist_ok)
    ELSE With(os_makedirs(fs, Front(key), exist_ok), LAMBDA up :
              IF up.exc \notin {"", "FileExistsError"} THEN up
              ELSE makedirs_leaf(up.fs, key, exist_ok))

\* os.remove, os.unlink
os_remove(fs, key) ==
    IF key \notin DOMAIN fs THEN [fs |-> fs, exc |-> "FileNotFoundError"]
    ELSE IF fs[key].kind = "dir" THEN [fs |-> fs, exc |-> "IsADirectoryError"]
    ELSE [fs |-> Without(fs, {key}), exc |-> ""]

\* os.rmdir: the root cannot be removed.
os_rmdir(fs, key) ==
    IF key \notin DOMAIN fs THEN [fs |-> fs, exc |-> "FileNotFoundError"]
    ELSE IF fs[key].kind # "dir" THEN [fs |-> fs, exc |-> "NotADirectoryError"]
    ELSE IF key = Root \/ Children(fs, key) # {} THEN [fs |-> fs, exc |-> "OSError"]
    ELSE [fs |-> Without(fs, {key}), exc |-> ""]

\* shutil.rmtree: removes what is under the directory, then the directory.
shutil_rmtree(fs, key) ==
    os_rmdir(Without(fs, {k \in DOMAIN fs : Under(key, k)}), key)

\* open(p, mode) and f.write(text), mode "w" or "a", on Linux, where a
\* written "\n" stays "\n" and a written "\r" stays "\r".
open_write(fs, key, mode, text) ==
    With(ParentErr(fs, key), LAMBDA err :
         IF err # "" THEN [fs |-> fs, exc |-> err]
         ELSE IF key \in DOMAIN fs /\ fs[key].kind = "dir"
              THEN [fs |-> fs, exc |-> "IsADirectoryError"]
         ELSE [fs |-> (key :> File((IF key \in DOMAIN fs /\ mode = "a"
                                    THEN fs[key].data ELSE <<>>) \o text)) @@ fs,
               exc |-> ""])

\* What a text-mode read (newline=None) makes of the file's data: "\r\n"
\* and "\r" are read as "\n".
RECURSIVE universal_newlines(_)
universal_newlines(data) ==
    IF data = <<>> THEN <<>>
    ELSE IF Head(data) = CR THEN
        IF Len(data) >= 2 /\ data[2] = LF
        THEN <<LF>> \o universal_newlines(Tail(Tail(data)))
        ELSE <<LF>> \o universal_newlines(Tail(data))
    ELSE <<Head(data)>> \o universal_newlines(Tail(data))

\* open(p, "r", encoding="utf-8", errors="replace").read()
read_text(fs, key) == universal_newlines(fs[key].data)

\* f.readlines() of the text: each line with its "\n".
RECURSIVE splitlines_keepends(_)
splitlines_keepends(text) ==
    IF text = <<>> THEN <<>>
    ELSE IF \A i \in 1..Len(text) : text[i] # LF THEN <<text>>
    ELSE With(CHOOSE k \in 1..Len(text) :
                  text[k] = LF /\ \A j \in 1..(k - 1) : text[j] # LF,
              LAMBDA i : <<SubSeq(text, 1, i)>>
                         \o splitlines_keepends(SubSeq(text, i + 1, Len(text))))

(* ------------------------------ listing ------------------------------- *)

\* The characters of the names used here, in code point order.
Alphabet == <<"-", ".", ">", "a", "b", "f", "h", "m", "p", "r", "t">>

CharRank(c) ==
    IF \E i \in 1..Len(Alphabet) : Alphabet[i] = c
    THEN CHOOSE i \in 1..Len(Alphabet) : Alphabet[i] = c
    ELSE 0

\* a < b as Python compares strings.
RECURSIVE str_lt(_, _)
str_lt(a, b) ==
    IF b = <<>> THEN FALSE
    ELSE IF a = <<>> THEN TRUE
    ELSE IF Head(a) = Head(b) THEN str_lt(Tail(a), Tail(b))
    ELSE CharRank(Head(a)) < CharRank(Head(b))

\* sorted(names)
RECURSIVE sorted(_)
sorted(names) ==
    IF names = {} THEN <<>>
    ELSE With(CHOOSE n \in names : \A o \in names \ {n} : str_lt(n, o),
              LAMBDA least : <<least>> \o sorted(names \ {least}))

\* os.listdir / os.scandir of a directory; the order the system lists in is
\* taken to be the sorted one.
listdir(fs, key) == sorted({Last(k) : k \in Children(fs, key)})

(* ------------------------------ shutil -------------------------------- *)

\* shutil.copyfile between two places: the data is copied byte for byte.
copyfile(fs, src, dst) ==
    IF src = dst /\ dst \in DOMAIN fs THEN [fs |-> fs, exc |-> "SameFileError"]
    ELSE With(ParentErr(fs, dst), LAMBDA err :
         IF err # "" THEN [fs |-> fs, exc |-> err]
         ELSE IF dst \in DOMAIN fs /\ fs[dst].kind = "dir"
              THEN [fs |-> fs, exc |-> "IsADirectoryError"]
         ELSE [fs |-> (dst :> File(fs[src].data)) @@ fs, exc |-> ""])

\* shutil.copy2(src, dst), src a file
shutil_copy2(fs, src, dst) ==
    copyfile(fs, Key(src),
             Key(IF isdir(fs, dst) THEN path_join(dst, basename(src)) ELSE dst))

\* shutil.copytree(src, dst): the entries of src are listed, dst is made (it
\* must not exist), and each entry is copied; an entry's OSError is recorded
\* and raised as one Error at the end, any other exception ends the copy at
\* once.  depth counts the nested calls.
RECURSIVE shutil_copytree(_, _, _, _)
RECURSIVE copytree_entries(_, _, _, _, _, _)
shutil_copytree(fs, src, dst, depth) ==
    IF depth > RecursionLimit THEN [fs |-> fs, exc |-> "RecursionError"]
    ELSE With(os_makedirs(fs, dst, FALSE), LAMBDA made :
              IF made.exc # "" THEN made
              ELSE copytree_entries(made.fs, listdir(fs, src), src, dst, depth, FALSE))

copytree_entries(fs, entries, src, dst, depth, errors) ==
    IF entries = <<>> THEN [fs |-> fs, exc |-> IF errors THEN "Error" ELSE ""]
    ELSE With(IF fs[Append(src, Head(entries))].kind = "dir"
              THEN shutil_copytree(fs, Append(src, Head(entries)),
                                   Append(dst, Head(entries)), depth + 1)
              ELSE copyfile(fs, Append(src, Head(entries)), Append(dst, Head(entries))),
              LAMBDA one :
              IF one.exc = "RecursionError" THEN one
              ELSE copytree_entries(one.fs, Tail(entries), src, dst, depth,
                                    errors \/ one.exc # ""))

\* The entries under src, moved to under dst.
Renamed(fs, src, dst) ==
    [k \in {dst \o SubSeq(m, Len(src) + 1, Len(m)) : m \in Subtree(fs, src)}
       |-> fs[src \o SubSeq(k, Len(dst) + 1, Len(k))]]
    @@ Without(fs, Subtree(fs, src) \cup {dst})

\* os.rename(src, dst) of an existing src, as rename(2) does it.
os_rename(fs, src, dst) ==
    IF src = Root THEN [fs |-> fs, exc |-> "OSError"]
    ELSE IF ParentErr(fs, dst) # "" THEN [fs |-> fs, exc |-> ParentErr(fs, dst)]
    ELSE IF src = dst THEN [fs |-> fs, exc |-> ""]
    ELSE IF Under(src, dst) THEN [fs |-> fs, exc |-> "OSError"]
    ELSE IF dst \notin DOMAIN fs THEN [fs |-> Renamed(fs, src, dst), exc |-> ""]
    ELSE IF fs[src].kind = "dir" /\ fs[dst].kind = "file"
         THEN [fs |-> fs, exc |-> "NotADirectoryError"]
    ELSE IF fs[src].kind = "file" /\ fs[dst].kind = "dir"
         THEN [fs |-> fs, exc |-> "IsADirectoryError"]
    ELSE IF fs[dst].kind = "dir" /\ Children(fs, dst) # {}
         THEN [fs |-> fs, exc |-> "OSError"]
    ELSE [fs |-> Renamed(fs, src, dst), exc |-> ""]

\* shutil.move, once os.rename has raised OSError: a directory is copied as
\* a tree and removed, a file is copied and unlinked.
move_by_copy(fs, src, dst, real_dst) ==
    IF isdir(fs, src) THEN
        IF IsPrefix(Key(src), Key(dst)) THEN [fs |-> fs, exc |-> "Error"]
        ELSE With(shutil_copytree(fs, Key(src), Key(real_dst), 1), LAMBDA copied :
                  IF copied.exc # "" THEN copied
                  ELSE shutil_rmtree(copied.fs, Key(src)))
    ELSE With(shutil_copy2(fs, src, real_dst), LAMBDA copied :
              IF copied.exc # "" THEN copied
              ELSE os_remove(copied.fs, Key(src)))

\* shutil.move, after real_dst is settled.
move_to(fs, src, dst, real_dst) ==
    With(os_rename(fs, Key(src), Key(real_dst)), LAMBDA renamed :
         IF renamed.exc = "" THEN renamed
         ELSE move_by_copy(fs, src, dst, real_dst))

\* shutil.move(src, dst) of an existing src
shutil_move(fs, src, dst) ==
    IF ~isdir(fs, dst) THEN move_to(fs, src, dst, dst)
    ELSE IF Key(src) = Key(dst) THEN os_rename(fs, Key(src), Key(dst))
    ELSE With(path_join(dst, basename(rstrip_slash(src))), LAMBDA real_dst :
              IF exists(fs, real_dst) THEN [fs |-> fs, exc |-> "Error"]
              ELSE move_to(fs, src, dst, real_dst))

(* ----------------------------- handlers ------------------------------- *)

\* What a handler does: the filesystem it leaves, and either the 4-tuple it
\* returns or (exc # "") the exception it lets escape.
Ret(fs, out, err, cwd, code) ==
    [fs |-> fs, exc |-> "", out |-> out, err |-> err, cwd |-> cwd, code |-> code]
Raise(fs, exc) ==
    [fs |-> fs, exc |-> exc, out |-> <<>>, err |-> <<>>, cwd |-> None, code |-> 0]

\* Command names and option tokens, as text.
T_pwd == <<"p", "w", "d">>
T_ls == <<"l", "s">>
T_cd == <<"c", "d">>
T_mkdir == <<"m", "k", "d", "i", "r">>
T_rm == <<"r", "m">>
T_rmdir == <<"r", "m", "d", "i", "r">>
T_cat == <<"c", "a", "t">>
T_touch == <<"t", "o", "u", "c", "h">>
T_mv == <<"m", "v">>
T_cp == <<"c", "p">>
T_echo == <<"e", "c", "h", "o">>
T_cpu == <<"c", "p", "u">>
T_mem == <<"m", "e", "m">>
T_ps == <<"p", "s">>
T_whoami == <<"w", "h", "o", "a", "m", "i">>
T_date == <<"d", "a", "t", "e">>
T_uptime == <<"u", "p", "t", "i", "m", "e">>
T_head == <<"h", "e", "a", "d">>
T_tail == <<"t", "a", "i", "l">>
T_clear == <<"c", "l", "e", "a", "r">>
T_help == <<"h", "e", "l", "p">>
T_dashdash_help == <<"-", "-", "h", "e", "l", "p">>
T_dash_h == <<"-", "h">>
T_dash_l == <<"-", "l">>
T_dash_r == <<"-", "r">>
T_dash_rf == <<"-", "r", "f">>
T_dash_fr == <<"-", "f", "r">>
T_gt == <<">">>
T_gtgt == <<">", ">">>

\* The lines of ls -l: the size, formatted, then the name.
RECURSIVE ls_long_lines(_)
ls_long_lines(entries) ==
    IF entries = <<>> THEN <<>>
    ELSE <<<<"{size:8d}", SP>> \o Head(entries)>> \o ls_long_lines(Tail(entries))

\* CommandExecutor._ls: the target.
ls_target(args, cwd) ==
    IF args = <<>> THEN cwd
    ELSE IF args[1] = T_dash_l THEN
        IF Len(args) > 1 THEN path_resolve(args[2], cwd) ELSE cwd
    ELSE path_resolve(args[1], cwd)

\* CommandExecutor._ls: the listing of a directory.
ls_entries(entries, long_format, cwd, fs) ==
    IF long_format THEN
        Ret(fs, str_join(<<LF>>, ls_long_lines(entries))
                \o (IF entries # <<>> THEN <<LF>> ELSE <<>>), <<>>, cwd, 0)
    ELSE Ret(fs, str_join(<<SP, SP>>, entries) \o <<LF>>, <<>>, cwd, 0)

\* CommandExecutor._ls
ls(args, cwd, fs) ==
    With(ls_target(args, cwd), LAMBDA target :
         IF ~exists(fs, target) THEN
             Ret(fs, <<>>, <<"ls: cannot access '">> \o target
                           \o <<"': No such file or directory\n">>, cwd, 2)
         ELSE IF isfile(fs, target) THEN
             Ret(fs, basename(target) \o <<LF>>, <<>>, cwd, 0)
         ELSE ls_entries(listdir(fs, stat(fs, target).key),
                         args # <<>> /\ args[1] = T_dash_l, cwd, fs))

\* os.path.expanduser("~") with HOME set
expanduser(HOME) ==
    IF rstrip_slash(HOME) = <<>> THEN <<SLASH>> ELSE rstrip_slash(HOME)

\* CommandExecutor._cd
cd(args, cwd, fs, HOME) ==
    With(IF args = <<>> THEN expanduser(HOME) ELSE path_resolve(args[1], cwd),
         LAMBDA new :
         IF ~exists(fs, new) THEN
             IF args = <<>> THEN Raise(fs, "IndexError")
             ELSE Ret(fs, <<>>, <<"cd: ">> \o args[1]
                                \o <<": No such file or directory\n">>, cwd, 1)
         ELSE IF ~isdir(fs, new) THEN
             IF args = <<>> THEN Raise(fs, "IndexError")
             ELSE Ret(fs, <<>>, <<"cd: ">> \o args[1] \o <<": Not a directory\n">>, cwd, 1)
         ELSE Ret(fs, <<>>, <<>>, new, 0))

\* CommandExecutor._mkdir: the loop over args.
RECURSIVE mkdir_loop(_, _, _)
mkdir_loop(args, cwd, fs) ==
    IF args = <<>> THEN Ret(fs, <<>>, <<>>, cwd, 0)
    ELSE With(os_makedirs(fs, Key(path_resolve(Head(args), cwd)), FALSE), LAMBDA made :
              IF made.exc = "FileExistsError" THEN
                  Ret(made.fs, <<>>, <<"mkdir: cannot create directory '">> \o Head(args)
                                     \o <<"': File exists\n">>, cwd, 1)
              ELSE IF made.exc # "" THEN Raise(made.fs, made.exc)
              ELSE mkdir_loop(Tail(args), cwd, made.fs))

\* CommandExecutor._mkdir
mkdir(args, cwd, fs) ==
    IF args = <<>> THEN Ret(fs, <<>>, <<"mkdir: missing operand\n">>, cwd, 2)
    ELSE mkdir_loop(args, cwd, fs)

RmFlags == {T_dash_r, T_dash_rf, T_dash_fr}

\* CommandExecutor._rm: the removal of one path that exists.
rm_one(rp, fs) ==
    IF isdir(fs, rp) THEN shutil_rmtree(fs, Key(rp)) ELSE os_remove(fs, Key(rp))

\* CommandExecutor._rm: the loop over paths.
RECURSIVE rm_loop(_, _, _, _)
rm_loop(paths, recursive, cwd, fs) ==
    IF paths = <<>> THEN Ret(fs, <<>>, <<>>, cwd, 0)
    ELSE With(path_resolve(Head(paths), cwd), LAMBDA rp :
         IF ~exists(fs, rp) THEN
             Ret(fs, <<>>, <<"rm: cannot remove '">> \o Head(paths)
                           \o <<"': No such file or directory\n">>, cwd, 1)
         ELSE IF isdir(fs, rp) /\ ~recursive THEN
             Ret(fs, <<>>, <<"rm: cannot remove '">> \o Head(paths)
                           \o <<"': Is a directory\n">>, cwd, 1)
         ELSE With(rm_one(rp, fs), LAMBDA gone :
                   IF gone.exc # "" THEN Raise(gone.fs, gone.exc)
                   ELSE rm_loop(Tail(paths), recursive, cwd, gone.fs)))

\* _rm taking every call for a recursive one.
rm_always_recursive(args, cwd, fs) ==
    IF args = <<>> THEN Ret(fs, <<>>, <<"rm: missing operand\n">>, cwd, 2)
    ELSE With(SelectSeq(args, LAMBDA a : a \notin RmFlags), LAMBDA paths :
              IF paths = <<>> THEN Ret(fs, <<>>, <<"rm: missing path\n">>, cwd, 2)
              ELSE rm_loop(paths, TRUE, cwd, fs))

\* CommandExecutor._rm
rm(args, cwd, fs) ==
    IF args = <<>> THEN Ret(fs, <<>>, <<"rm: missing operand\n">>, cwd, 2)
    ELSE With(SelectSeq(args, LAMBDA a : a \notin RmFlags), LAMBDA paths :
              IF paths = <<>> THEN Ret(fs, <<>>, <<"rm: missing path\n">>, cwd, 2)
              ELSE rm_loop(paths, \E i \in 1..Len(args) : args[i] \in RmFlags, cwd, fs))

\* CommandExecutor._rmdir: the loop over args.
RECURSIVE rmdir_loop(_, _, _)
rmdir_loop(args, cwd, fs) ==
    IF args = <<>> THEN Ret(fs, <<>>, <<>>, cwd, 0)
    ELSE With(path_resolve(Head(args), cwd), LAMBDA path :
         IF ~exists(fs, path) THEN
             Ret(fs, <<>>, <<"rmdir: failed to remove '">> \o Head(args)
                           \o <<"': No such file or directory\n">>, cwd, 1)
         ELSE IF ~isdir(fs, path) THEN
             Ret(fs, <<>>, <<"rmdir: failed to remove '">> \o Head(args)
                           \o <<"': Not a directory\n">>, cwd, 1)
         ELSE With(os_rmdir(fs, Key(path)), LAMBDA gone :
                   IF gone.exc # "" THEN
                       Ret(fs, <<>>, <<"rmdir: failed to remove '">> \o Head(args)
                                     \o <<"': Directory not empty\n">>, cwd, 1)
                   ELSE rmdir_loop(Tail(args), cwd, gone.fs)))

\* CommandExecutor._rmdir
rmdir(args, cwd, fs) ==
    IF args = <<>> THEN Ret(fs, <<>>, <<"rmdir: missing operand\n">>, cwd, 2)
    ELSE rmdir_loop(args, cwd, fs)

\* CommandExecutor._echo: the write of text to the file after the operator
\* at idx.
echo_write(args, idx, mode, cwd, fs) ==
    IF idx + 1 > Len(args) THEN
        Ret(fs, <<>>, <<"echo: redirection error: ", "IndexError", LF>>, cwd, 1)
    ELSE With(open_write(fs, Key(path_resolve(args[idx + 1], cwd)), mode,
                         str_join(<<SP>>, SubSeq(args, 1, idx - 1)) \o <<LF>>),
              LAMBDA written :
              IF written.exc # "" THEN
                  Ret(written.fs, <<>>,
                      <<"echo: redirection error: ", written.exc, LF>>, cwd, 1)
              ELSE Ret(written.fs, <<>>, <<>>, cwd, 0))

\* CommandExecutor._echo
echo(args, cwd, fs) ==
    IF InSeq(T_gt, args) THEN echo_write(args, index(args, T_gt), "w", cwd, fs)
    ELSE IF InSeq(T_gtgt, args) THEN echo_write(args, index(args, T_gtgt), "a", cwd, fs)
    ELSE Ret(fs, str_join(<<SP>>, args) \o <<LF>>, <<>>, cwd, 0)

\* CommandExecutor._cat: the loop over args.
RECURSIVE cat_loop(_, _, _, _)
cat_loop(args, out_lines, cwd, fs) ==
    IF args = <<>> THEN Ret(fs, str_join(<<LF>>, out_lines), <<>>, cwd, 0)
    ELSE With(path_resolve(Head(args), cwd), LAMBDA p :
         IF ~exists(fs, p) THEN
             Ret(fs, <<>>, <<"cat: ">> \o Head(args)
                           \o <<": No such file or directory\n">>, cwd, 1)
         ELSE IF isdir(fs, p) THEN
             Ret(fs, <<>>, <<"cat: ">> \o Head(args) \o <<": Is a directory\n">>, cwd, 1)
         ELSE cat_loop(Tail(args), Append(out_lines, read_text(fs, Key(p))), cwd, fs))

\* CommandExecutor._cat
cat(args, cwd, fs) ==
    IF args = <<>> THEN Ret(fs, <<>>, <<"cat: missing file operand\n">>, cwd, 2)
    ELSE cat_loop(args, <<>>, cwd, fs)

\* The lines head and tail keep.
HeadLines == 10
TailLines == 10

\* lines[:n] and lines[-n:]
FirstLines(lines, n) == SubSeq(lines, 1, IF Len(lines) < n THEN Len(lines) ELSE n)
LastLines(lines, n) ==
    SubSeq(lines, IF Len(lines) < n THEN 1 ELSE Len(lines) - n + 1, Len(lines))

\* _head opening its file for update, which creates a missing one.
head_creating(args, cwd, fs) ==
    IF args = <<>> THEN Ret(fs, <<>>, <<"head: missing file operand\n">>, cwd, 2)
    ELSE With(path_resolve(args[1], cwd), LAMBDA path :
         IF isdir(fs, path) THEN
             Ret(fs, <<>>, <<"head: ">> \o args[1] \o <<": Is a directory\n">>, cwd, 1)
         ELSE With(open_write(fs, Key(path), "a", <<>>), LAMBDA opened :
                   IF opened.exc # "" THEN Raise(opened.fs, opened.exc)
                   ELSE Ret(opened.fs,
                            str_join(<<>>, FirstLines(splitlines_keepends(
                                read_text(opened.fs, Key(path))), HeadLines)),
                            <<>>, cwd, 0)))

\* CommandExecutor._head
head(args, cwd, fs) ==
    IF args = <<>> THEN Ret(fs, <<>>, <<"head: missing file operand\n">>, cwd, 2)
    ELSE With(path_resolve(args[1], cwd), LAMBDA path :
         IF ~exists(fs, path) THEN
             Ret(fs, <<>>, <<"head: ">> \o args[1]
                           \o <<": No such file or directory\n">>, cwd, 1)
         ELSE IF isdir(fs, path) THEN
             Ret(fs, <<>>, <<"head: ">> \o args[1] \o <<": Is a directory\n">>, cwd, 1)
         ELSE Ret(fs, str_join(<<>>, FirstLines(splitlines_keepends(
                                         read_text(fs, Key(path))), HeadLines)),
                  <<>>, cwd, 0))

\* CommandExecutor._tail
tail(args, cwd, fs) ==
    IF args = <<>> THEN Ret(fs, <<>>, <<"tail: missing file operand\n">>, cwd, 2)
    ELSE With(path_resolve(args[1], cwd), LAMBDA path :
         IF ~exists(fs, path) THEN
             Ret(fs, <<>>, <<"tail: ">> \o args[1]
                           \o <<": No such file or directory\n">>, cwd, 1)
         ELSE IF isdir(fs, path) THEN
             Ret(fs, <<>>, <<"tail: ">> \o args[1] \o <<": Is a directory\n">>, cwd, 1)
         ELSE Ret(fs, str_join(<<>>, LastLines(splitlines_keepends(
                                         read_text(fs, Key(path))), TailLines)),
                  <<>>, cwd, 0))

\* CommandExecutor._touch: the parent directories of p, made when missing.
touch_parents(p, fs) ==
    IF dirname(p) # <<>> /\ ~exists(fs, dirname(p))
    THEN os_makedirs(fs, Key(dirname(p)), TRUE)
    ELSE [fs |-> fs, exc |-> ""]

\* CommandExecutor._touch: the loop over args.
RECURSIVE touch_loop(_, _, _)
touch_loop(args, cwd, fs) ==
    IF args = <<>> THEN Ret(fs, <<>>, <<>>, cwd, 0)
    ELSE With(path_resolve(Head(args), cwd), LAMBDA p :
         With(touch_parents(p, fs), LAMBDA made :
              IF made.exc # "" THEN Raise(made.fs, made.exc)
              ELSE With(open_write(made.fs, Key(p), "a", <<>>), LAMBDA opened :
                        IF opened.exc # "" THEN Raise(opened.fs, opened.exc)
                        ELSE touch_loop(Tail(args), cwd, opened.fs))))

\* CommandExecutor._touch
touch(args, cwd, fs) ==
    IF args = <<>> THEN Ret(fs, <<>>, <<"touch: missing file operand\n">>, cwd, 2)
    ELSE touch_loop(args, cwd, fs)

\* path_resolve of each of args
resolve_all(args, cwd) == [i \in 1..Len(args) |-> path_resolve(args[i], cwd)]

\* CommandExecutor._mv: the loop over srcs.
RECURSIVE mv_loop(_, _, _, _)
mv_loop(srcs, dest, cwd, fs) ==
    IF srcs = <<>> THEN Ret(fs, <<>>, <<>>, cwd, 0)
    ELSE IF ~exists(fs, Head(srcs)) THEN
        Ret(fs, <<>>, <<"mv: cannot stat '">> \o Head(srcs)
                      \o <<"': No such file or directory\n">>, cwd, 1)
    ELSE With(shutil_move(fs, Head(srcs),
                          IF isdir(fs, dest) THEN path_join(dest, basename(Head(srcs)))
                          ELSE dest),
              LAMBDA moved :
              IF moved.exc # "" THEN
                  Ret(moved.fs, <<>>, <<"mv error: ", moved.exc, LF>>, cwd, 1)
              ELSE mv_loop(Tail(srcs), dest, cwd, moved.fs))

\* _mv without the test of the destination of several sources.
mv_without_target_test(args, cwd, fs) ==
    IF Len(args) < 2 THEN Ret(fs, <<>>, <<"mv: missing file operands\n">>, cwd, 2)
    ELSE mv_loop(resolve_all(SubSeq(args, 1, Len(args) - 1), cwd),
                 path_resolve(args[Len(args)], cwd), cwd, fs)

\* CommandExecutor._mv
mv(args, cwd, fs) ==
    IF Len(args) < 2 THEN Ret(fs, <<>>, <<"mv: missing file operands\n">>, cwd, 2)
    ELSE With(path_resolve(args[Len(args)], cwd), LAMBDA dest :
              IF Len(args) - 1 > 1 /\ ~isdir(fs, dest) THEN
                  Ret(fs, <<>>, <<"mv: target is not a directory\n">>, cwd, 1)
              ELSE mv_loop(resolve_all(SubSeq(args, 1, Len(args) - 1), cwd),
                           dest, cwd, fs))

\* CommandExecutor._cp: the copy of one source that exists.
cp_one(s, dest, fs) ==
    IF isdir(fs, s)
    THEN shutil_copytree(fs, Key(s), Key(path_join(dest, basename(s))), 1)
    ELSE shutil_copy2(fs, s, IF isdir(fs, dest) THEN path_join(dest, basename(s))
                             ELSE dest)

\* CommandExecutor._cp: the loop over srcs.
RECURSIVE cp_loop(_, _, _, _, _)
cp_loop(srcs, dest, recursive, cwd, fs) ==
    IF srcs = <<>> THEN Ret(fs, <<>>, <<>>, cwd, 0)
    ELSE IF ~exists(fs, Head(srcs)) THEN
        Ret(fs, <<>>, <<"cp: cannot stat '">> \o Head(srcs)
                      \o <<"': No such file or directory\n">>, cwd, 1)
    ELSE IF isdir(fs, Head(srcs)) /\ ~recursive THEN
        Ret(fs, <<>>, <<"cp: -r not specified; omitting directory '">> \o Head(srcs)
                      \o <<"'\n">>, cwd, 1)
    ELSE With(cp_one(Head(srcs), dest, fs), LAMBDA copied :
              IF copied.exc # "" THEN
                  Ret(copied.fs, <<>>, <<"cp error: ", copied.exc, LF>>, cwd, 1)
              ELSE cp_loop(Tail(srcs), dest, recursive, cwd, copied.fs))

\* CommandExecutor._cp: after the options are parted from the files.
cp_files(files, recursive, cwd, fs) ==
    IF Len(files) < 2 THEN
        Ret(fs, <<>>, <<"cp: missing destination file operand after source\n">>, cwd, 2)
    ELSE With(path_resolve(files[Len(files)], cwd), LAMBDA dest :
              IF Len(files) - 1 > 1 /\ ~isdir(fs, dest) THEN
                  Ret(fs, <<>>, <<"cp: target is not a directory\n">>, cwd, 1)
              ELSE cp_loop(resolve_all(SubSeq(files, 1, Len(files) - 1), cwd),
                           dest, recursive, cwd, fs))

\* CommandExecutor._cp
cp(args, cwd, fs) ==
    IF Len(args) < 2 THEN Ret(fs, <<>>, <<"cp: missing file operands\n">>, cwd, 2)
    ELSE cp_files(SelectSeq(args, LAMBDA a : a # T_dash_r), InSeq(T_dash_r, args),
                  cwd, fs)

\* CommandExecutor._cpu, _mem, _ps: psutil answers, or raises.
cpu(fs, psutil_ok) ==
    IF psutil_ok THEN Ret(fs, <<"CPU: {perc}%\n">>, <<>>, None, 0)
    ELSE Raise(fs, "psutil.Error")
mem(fs, psutil_ok) ==
    IF psutil_ok THEN Ret(fs, <<"Memory: {used}/{total} bytes ({percent}%)\n">>, <<>>, None, 0)
    ELSE Raise(fs, "psutil.Error")
ps(args, fs, psutil_ok) ==
    IF psutil_ok THEN Ret(fs, <<"{procs}", LF>>, <<>>, None, 0)
    ELSE Raise(fs, "TypeError")

\* CommandExecutor._help_text
help_text ==
    <<"Supported commands:\n",
      "  pwd, ls [-l] [path], cd <path>, mkdir <name>, rmdir <name>, rm [-r] <path>\n",
      "  cat <file>, touch <file>, mv <src> <dest>, cp [-r] <src> <dest>\n",
      "  echo [text] [> file] [>> file], head <file>, tail <file>\n",
      "  cpu, mem, ps, whoami, date, uptime\n",
      "  clear, help\n">>

(* ------------------------------- run ---------------------------------- *)

\* The directory run works in when it is given none.
DefaultCwd == <<SLASH, "t", "m", "p">>

\* The fallthrough of the chain, given a code of its own no longer.
not_found_as_failure(cmd, cwd, fs) ==
    Ret(fs, <<>>, <<"Command not found: ">> \o cmd \o <<LF>>, cwd, 1)

\* CommandExecutor.run: the fallthrough of the chain of comparisons.
not_found(cmd, cwd, fs) ==
    Ret(fs, <<>>, <<"Command not found: ">> \o cmd \o <<LF>>, cwd, 127)

\* CommandExecutor.run: the chain of comparisons of cmd, inside the try.
dispatch(cmd, args, cwd, fs, HOME, psutil_ok) ==
    IF cmd = T_pwd THEN Ret(fs, cwd \o <<LF>>, <<>>, cwd, 0)
    ELSE IF cmd = T_ls THEN ls(args, cwd, fs)
    ELSE IF cmd = T_cd THEN cd(args, cwd, fs, HOME)
    ELSE IF cmd = T_mkdir THEN mkdir(args, cwd, fs)
    ELSE IF cmd = T_rm THEN rm(args, cwd, fs)
    ELSE IF cmd = T_rmdir THEN rmdir(args, cwd, fs)
    ELSE IF cmd = T_cat THEN cat(args, cwd, fs)
    ELSE IF cmd = T_touch THEN touch(args, cwd, fs)
    ELSE IF cmd = T_mv THEN mv(args, cwd, fs)
    ELSE IF cmd = T_cp THEN cp(args, cwd, fs)
    ELSE IF cmd = T_echo THEN echo(args, cwd, fs)
    ELSE IF cmd = T_cpu THEN cpu(fs, psutil_ok)
    ELSE IF cmd = T_mem THEN mem(fs, psutil_ok)
    ELSE IF cmd = T_ps THEN ps(args, fs, psutil_ok)
    ELSE IF cmd = T_whoami THEN Ret(fs, <<"{USER}", LF>>, <<>>, cwd, 0)
    ELSE IF cmd = T_date THEN Ret(fs, <<"{now}", LF>>, <<>>, cwd, 0)
    ELSE IF cmd = T_uptime THEN
        IF psutil_ok THEN Ret(fs, <<"up {hrs}h {mins}m {secs}s\n">>, <<>>, cwd, 0)
        ELSE Raise(fs, "psutil.Error")
    ELSE IF cmd = T_head THEN head(args, cwd, fs)
    ELSE IF cmd = T_tail THEN tail(args, cwd, fs)
    ELSE IF cmd = T_clear THEN Ret(fs, <<"__CLEAR__">>, <<>>, cwd, 0)
    ELSE IF cmd \in {T_help, T_dashdash_help, T_dash_h} THEN
        Ret(fs, help_text, <<>>, cwd, 0)
    ELSE not_found(cmd, cwd, fs)

\* The dispatch without the except clause around it.
run_try_without_except(parts, cwd, fs, HOME, psutil_ok) ==
    dispatch(parts[1], Tail(parts), cwd, fs, HOME, psutil_ok)

\* CommandExecutor.run: the try block, whose except clause turns what a
\* handler raises into a result.
run_try(parts, cwd, fs, HOME, psutil_ok) ==
    With(dispatch(parts[1], Tail(parts), cwd, fs, HOME, psutil_ok), LAMBDA handled :
         IF handled.exc # "" THEN
             Ret(handled.fs, <<>>, <<"Error: ", handled.exc, LF>>, cwd, 1)
         ELSE handled)

\* CommandExecutor.run: from the strip on, cwd being set.
run_line(raw, cwd, fs, HOME, psutil_ok) ==
    IF raw = <<>> THEN Ret(fs, <<>>, <<>>, cwd, 0)
    ELSE With(shlex_split(raw), LAMBDA split :
              IF split.err # "" THEN Ret(fs, <<>>, <<"parse error: ", split.err>>, cwd, 2)
              ELSE IF split.parts = <<>> THEN Raise(fs, "IndexError")
              ELSE run_try(split.parts, cwd, fs, HOME, psutil_ok))

\* CommandExecutor.run(raw_cmd, cwd); cwd is None when no working directory
\* is passed.  HOME and psutil_ok are what the environment answers.
run(raw_cmd, cwd, fs, HOME, psutil_ok) ==
    IF cwd # None THEN run_line(strip(raw_cmd), cwd, fs, HOME, psutil_ok)
    ELSE With(os_makedirs(fs, Key(DefaultCwd), TRUE), LAMBDA made :
              IF made.exc # "" THEN Raise(made.fs, made.exc)
              ELSE run_line(strip(raw_cmd), DefaultCwd, made.fs, HOME, psutil_ok))

(* --------------------------- state machine ---------------------------- *)

\* fs:  the filesystem.
\* cwd: the working directory the caller holds and passes to run (None: the
\*      caller passes none).
\* log: the calls made, each with the tokens of its line and the
\*      filesystem before and after it.
VARIABLES fs, cwd, log
vars == <<fs, cwd, log>>

\* The names of the entries a call may find, and what a file may hold.
N_a == <<"a">>
N_tmp == <<"t", "m", "p">>
InitKeys == {<<N_a>>, <<N_tmp>>, <<N_a, N_a>>, <<N_a, N_tmp>>, <<N_tmp, N_a>>}
InitEntries == {Dir, File(<<>>), File(<<"h", LF>>)}

\* Filesystems of at most MaxEntries entries: each entry's parent is a
\* directory.
WellFormed(f) ==
    /\ Root \in DOMAIN f /\ f[Root] = Dir
    /\ \A k \in DOMAIN f : k # Root =>
           Front(k) \in DOMAIN f /\ f[Front(k)].kind = "dir"

InitFS ==
    UNION {{(Root :> Dir) @@ f : f \in {g \in [S -> InitEntries] :
                                          WellFormed((Root :> Dir) @@ g)}}
           : S \in {T \in SUBSET InitKeys : Cardinality(T) <= MaxEntries}}

\* The working directories a caller passes.
CwdInputs == {<<SLASH>>, <<SLASH, "a">>, None}

\* The operands of the commands: relative, upward, and absolute and nested.
PathArgs == {<<"a">>, <<".", ".">>, <<SLASH, "t", "m", "p", SLASH, "a">>}

\* Non-empty lists of at most n operands.
RECURSIVE ListsOf(_, _)
ListsOf(S, n) ==
    IF n = 0 THEN {<<>>}
    ELSE With(ListsOf(S, n - 1), LAMBDA shorter :
              shorter \cup {Append(l, x) : l \in shorter, x \in S})
Operands == ListsOf(PathArgs, MaxItems) \ {<<>>}

\* HOME as the environment may set it.
HomeInputs == {<<SLASH, "a">>, <<SLASH, "a", SLASH>>, <<SLASH, "a", SLASH, ".">>}
DefaultHome == <<SLASH, "a">>

\* The command line of a command and its tokens.
Line(cmd, args) == str_join(<<SP>>, <<cmd>> \o args)

Init ==
    /\ fs \in InitFS
    /\ cwd \in CwdInputs
    /\ log = <<>>

\* The caller calls run(raw_cmd, cwd) and keeps the working directory it
\* gets back.
Call(raw_cmd, HOME, psutil_ok) ==
    \E r \in {run(raw_cmd, cwd, fs, HOME, psutil_ok)} :
    /\ fs' = r.fs
    /\ cwd' = IF r.exc # "" \/ r.cwd = None THEN cwd ELSE r.cwd
    /\ log' = Append(log, [raw |-> raw_cmd, split |-> shlex_split(strip(raw_cmd)),
                           cwd |-> cwd, HOME |-> HOME,
                           pre |-> fs, post |-> r.fs, exc |-> r.exc,
                           out |-> r.out, err |-> r.err, newcwd |-> r.cwd,
                           code |-> r.code])

Pwd ==
    /\ log = <<>>
    /\ Call(Line(T_pwd, <<>>), DefaultHome, TRUE)
Ls ==
    /\ log = <<>>
    /\ \E args \in {<<>>, <<T_dash_l>>} \cup {<<p>> : p \in PathArgs}
                  \cup {<<T_dash_l, p>> : p \in PathArgs} :
          Call(Line(T_ls, args), DefaultHome, TRUE)
Cd ==
    /\ log = <<>>
    /\ \/ \E p \in PathArgs : Call(Line(T_cd, <<p>>), DefaultHome, TRUE)
       \/ \E h \in HomeInputs : Call(Line(T_cd, <<>>), h, TRUE)
Mkdir ==
    /\ log = <<>>
    /\ \E args \in {<<>>} \cup Operands : Call(Line(T_mkdir, args), DefaultHome, TRUE)
Rm ==
    /\ log = <<>>
    /\ \E args \in {<<>>, <<T_dash_r>>} \cup Operands
                  \cup {<<f>> \o l : f \in RmFlags, l \in Operands}
                  \cup {Append(l, T_dash_r) : l \in Operands} :
          Call(Line(T_rm, args), DefaultHome, TRUE)
Rmdir ==
    /\ log = <<>>
    /\ \E args \in {<<>>} \cup Operands : Call(Line(T_rmdir, args), DefaultHome, TRUE)
Cat ==
    /\ log = <<>>
    /\ \E args \in {<<>>} \cup Operands : Call(Line(T_cat, args), DefaultHome, TRUE)
Touch ==
    /\ log = <<>>
    /\ \E args \in {<<>>} \cup Operands : Call(Line(T_touch, args), DefaultHome, TRUE)
Mv ==
    /\ log = <<>>
    /\ \E args \in {<<>>} \cup {<<p>> : p \in PathArgs}
                  \cup {Append(l, d) : l \in Operands, d \in PathArgs} :
          Call(Line(T_mv, args), DefaultHome, TRUE)
Cp ==
    /\ log = <<>>
    /\ \E args \in {<<>>, <<T_dash_r>>} \cup {<<p>> : p \in PathArgs}
                  \cup {<<T_dash_r, p>> : p \in PathArgs}
                  \cup {Append(l, d) : l \in Operands, d \in PathArgs}
                  \cup {<<T_dash_r>> \o Append(l, d) : l \in Operands, d \in PathArgs} :
          Call(Line(T_cp, args), DefaultHome, TRUE)

\* The words of an echo, as typed: plain, and quoted with a carriage
\* return inside.
EchoWords == {<<"h">>, <<SQUOTE, "a", CR, "b", SQUOTE>>}
WordLists == ListsOf(EchoWords, MaxWords)
Echo ==
    /\ log = <<>>
    /\ \E ws \in WordLists :
            \/ Call(Line(T_echo, ws), DefaultHome, TRUE)
            \/ \E op \in {T_gt, T_gtgt} :
                   \/ Call(Line(T_echo, Append(ws, op)), DefaultHome, TRUE)
                   \/ \E p \in PathArgs :
                          Call(Line(T_echo, ws \o <<op, p>>), DefaultHome, TRUE)
Head_ ==
    /\ log = <<>>
    /\ \E args \in {<<>>} \cup {<<p>> : p \in PathArgs} :
             Call(Line(T_head, args), DefaultHome, TRUE)
Tail_ ==
    /\ log = <<>>
    /\ \E args \in {<<>>} \cup {<<p>> : p \in PathArgs} :
             Call(Line(T_tail, args), DefaultHome, TRUE)
Cpu ==
    /\ log = <<>>
    /\ \E ok \in BOOLEAN : Call(Line(T_cpu, <<>>), DefaultHome, ok)
Mem ==
    /\ log = <<>>
    /\ \E ok \in BOOLEAN : Call(Line(T_mem, <<>>), DefaultHome, ok)
Ps ==
    /\ log = <<>>
    /\ \E ok \in BOOLEAN, args \in {<<>>, <<N_a>>} : Call(Line(T_ps, args), DefaultHome, ok)
Whoami ==
    /\ log = <<>>
    /\ Call(Line(T_whoami, <<>>), DefaultHome, TRUE)
Date ==
    /\ log = <<>>
    /\ Call(Line(T_date, <<>>), DefaultHome, TRUE)
Uptime ==
    /\ log = <<>>
    /\ \E ok \in BOOLEAN : Call(Line(T_uptime, <<>>), DefaultHome, ok)
Clear ==
    /\ log = <<>>
    /\ Call(Line(T_clear, <<>>), DefaultHome, TRUE)
Help ==
    /\ log = <<>>
    /\ \E cmd \in {T_help, T_dashdash_help, T_dash_h} :
            Call(Line(cmd, <<>>), DefaultHome, TRUE)

\* Lines that are empty once stripped.
BlankLines == {<<>>, <<SP>>, <<SP, TAB, CR, LF>>}
Blank ==
    /\ log = <<>>
    /\ \E raw \in BlankLines : Call(raw, DefaultHome, TRUE)

\* Lines whose quoting does not close.
MalformedLines == {<<SQUOTE>>, <<"l", "s", SP, DQUOTE, "a">>, <<"l", "s", BACKSLASH>>,
                   <<"r", "m", SP, "-", "r", SP, SQUOTE, "a">>}
Malformed ==
    /\ log = <<>>
    /\ \E raw \in MalformedLines : Call(raw, DefaultHome, TRUE)

\* Lines whose first token is no command of the table.
UnknownNames == {<<"f", "o", "o">>, <<DQUOTE, DQUOTE>>, <<"L", "S">>, <<"l", "s", "s">>,
                 <<"r", "m", SQUOTE, SP, SQUOTE>>, <<SLASH, "b", "i", "n", SLASH, "r", "m">>}
Unknown ==
    /\ log = <<>>
    /\ \E name \in UnknownNames, args \in {<<>>, <<T_dash_r, N_a>>} :
               Call(Line(name, args), DefaultHome, TRUE)

\* One call, from any of the filesystems and working directories.
Next ==
    \/ Pwd \/ Ls \/ Cd \/ Mkdir \/ Rm \/ Rmdir \/ Cat \/ Touch \/ Mv \/ Cp
    \/ Echo \/ Cpu \/ Mem \/ Ps \/ Whoami \/ Date \/ Uptime \/ Head_ \/ Tail_
    \/ Clear \/ Help \/ Blank \/ Malformed \/ Unknown
Spec == Init /\ [][Next]_vars

(* ------------------------- two calls in a row -------------------------- *)

\* echo with a redirection to a path, then cat of that path.
EchoTo ==
    /\ log = <<>>
    /\ \E ws \in WordLists, p \in PathArgs :
           Call(Line(T_echo, ws \o <<T_gt, p>>), DefaultHome, TRUE)
CatBack ==
    /\ Len(log) = 1
    /\ \E ws \in WordLists, p \in PathArgs :
           /\ log[1].raw = Line(T_echo, ws \o <<T_gt, p>>)
           /\ Call(Line(T_cat, <<p>>), DefaultHome, TRUE)

\* mkdir of a path, then the same command line again.
MkdirOnce ==
    /\ log = <<>>
    /\ \E p \in PathArgs : Call(Line(T_mkdir, <<p>>), DefaultHome, TRUE)
MkdirAgain ==
    /\ Len(log) = 1
    /\ \E p \in PathArgs :
           /\ log[1].raw = Line(T_mkdir, <<p>>)
           /\ Call(log[1].raw, DefaultHome, TRUE)

NextTwoCalls == EchoTo \/ CatBack \/ MkdirOnce \/ MkdirAgain
SpecTwoCalls == Init /\ [][NextTwoCalls]_vars

(* ------------------------------ the calls ------------------------------ *)

\* The calls made so far.
Entries == {log[i] : i \in DOMAIN log}

\* The call returned a tuple (it raised nothing).
Returned(e) == e.exc = ""

\* The tokens of the call's line; the call got as far as the chain of
\* comparisons when the line is not blank and its quoting closes.
Tokens(e) == e.split
Dispatched(e) == Returned(e) /\ strip(e.raw) # <<>> /\ Tokens(e).err = ""
Cmd(e) == Tokens(e).parts[1]
Args(e) == Tail(Tokens(e).parts)
Is(e, name) == Dispatched(e) /\ Cmd(e) = name

\* The working directory the command works in, and the filesystem it starts
\* from: a call that passes no working directory works in the default one,
\* which run makes before anything else.
Wd(e) == IF e.cwd = None THEN DefaultCwd ELSE e.cwd
Before(e) ==
    IF e.cwd = None THEN os_makedirs(e.pre, Key(DefaultCwd), TRUE).fs ELSE e.pre

\* The names the chain of comparisons knows.
CommandTable ==
    {T_pwd, T_ls, T_cd, T_mkdir, T_rm, T_rmdir, T_cat, T_touch, T_mv, T_cp,
     T_echo, T_cpu, T_mem, T_ps, T_whoami, T_date, T_uptime, T_head, T_tail,
     T_clear, T_help, T_dashdash_help, T_dash_h}

(* -------------------------------- C1 ---------------------------------- *)

\* C1: a call that passes a working directory returns a 4-tuple and raises
\* nothing; when its exit code is not 0, its stdout is empty, its stderr is
\* not, and the working directory it returns is the one it was passed.
C1_ReturnsAndEchoes ==
    \A e \in Entries : e.cwd # None =>
        /\ Returned(e)
        /\ e.code \in {0, 1, 2, 127}
        /\ e.code # 0 => e.out = <<>> /\ e.err # <<>> /\ e.newcwd = e.cwd

\* A handler raised (cd without argument, the home directory missing) and
\* the except clause of run made a result of it.
C1_Witness ==
    \E e \in Entries :
        /\ e.cwd # None /\ Is(e, T_cd) /\ Args(e) = <<>>
        /\ e.code = 1 /\ e.err = <<"Error: ", "IndexError", LF>>

(* -------------------------------- C2 ---------------------------------- *)

ItemCommands == {T_mkdir, T_rm, T_rmdir, T_mv, T_cp}

\* The options of a call of one of them, its operands, the items among the
\* operands and the destination after them.
Opts(e) ==
    IF Cmd(e) = T_rm THEN SelectSeq(Args(e), LAMBDA a : a \in RmFlags)
    ELSE IF Cmd(e) = T_cp THEN SelectSeq(Args(e), LAMBDA a : a = T_dash_r)
    ELSE <<>>
Opnds(e) ==
    IF Cmd(e) = T_rm THEN SelectSeq(Args(e), LAMBDA a : a \notin RmFlags)
    ELSE IF Cmd(e) = T_cp THEN SelectSeq(Args(e), LAMBDA a : a # T_dash_r)
    ELSE Args(e)
HasDest(e) == Cmd(e) \in {T_mv, T_cp}
Items(e) == IF HasDest(e) THEN Front(Opnds(e)) ELSE Opnds(e)
Dest(e) == IF HasDest(e) THEN <<Last(Opnds(e))>> ELSE <<>>

\* The call gets to its loop over the items.
ReachesItems(e) ==
    /\ Dispatched(e) /\ Cmd(e) \in ItemCommands
    /\ Len(Opnds(e)) >= (IF HasDest(e) THEN 2 ELSE 1)
    /\ HasDest(e) /\ Len(Items(e)) > 1
           => isdir(Before(e), path_resolve(Dest(e)[1], Wd(e)))

\* What the command does from the same start with the first n items only.
OfFirst(e, n) ==
    run_try(<<Cmd(e)>> \o Opts(e) \o SubSeq(Items(e), 1, n) \o Dest(e),
            Wd(e), Before(e), e.HOME, TRUE)

\* The first item that fails.
FirstFailing(e) ==
    CHOOSE k \in 1..Len(Items(e)) :
        /\ OfFirst(e, k).code # 0
        /\ \A j \in 1..(k - 1) : OfFirst(e, j).code = 0

\* C2: when item k of mkdir, rm, rmdir, mv or cp is the first that fails,
\* the filesystem is what the items before k make of it (item k and the
\* items after it have changed nothing), the exit code is 1 and stderr is
\* the report of item k's failure.
C2_StopsAtFirstFailure ==
    \A e \in Entries : ReachesItems(e) /\ e.code # 0 =>
        LET k == FirstFailing(e) IN
        /\ e.code = 1
        /\ e.post = (IF k = 1 THEN Before(e) ELSE OfFirst(e, k - 1).fs)
        /\ e.err = OfFirst(e, k).err

(* -------------------------------- C3 ---------------------------------- *)

\* An rm without a recursive flag, one of whose paths is a directory that
\* is not empty.
RmPlain(e) == Is(e, T_rm) /\ \A i \in DOMAIN Args(e) : Args(e)[i] \notin RmFlags
NonEmptyDirs(e) ==
    {Key(path_resolve(Args(e)[i], Wd(e))) : i \in
        {j \in DOMAIN Args(e) :
            /\ isdir(Before(e), path_resolve(Args(e)[j], Wd(e)))
            /\ Children(Before(e), Key(path_resolve(Args(e)[j], Wd(e)))) # {}}}

\* C3 as claimed: such an rm has exit code 1 and deletes nothing; each
\* such directory and everything under it is still there.
C3_NoDeletion ==
    \A e \in Entries : RmPlain(e) /\ NonEmptyDirs(e) # {} =>
        /\ e.code = 1
        /\ \A k \in DOMAIN Before(e) : k \in DOMAIN e.post

\* The paths before the first one that names a directory or nothing.
Removable(e, i) ==
    \A j \in 1..i : isfile(Before(e), path_resolve(Args(e)[j], Wd(e)))

\* C3, amended: such an rm has exit code 1, each such directory is still
\* a directory, nothing is created or changed, and what is deleted is a
\* file named by a path that comes before the first path naming a
\* directory or nothing.
C3_DeletesOnlyEarlierFiles ==
    \A e \in Entries : RmPlain(e) /\ NonEmptyDirs(e) # {} =>
        /\ e.code = 1
        /\ \A d \in NonEmptyDirs(e) : d \in DOMAIN e.post /\ e.post[d].kind = "dir"
        /\ \A k \in DOMAIN e.post : k \in DOMAIN Before(e) /\ e.post[k] = Before(e)[k]
        /\ \A k \in (DOMAIN Before(e)) \ DOMAIN e.post :
               /\ Before(e)[k].kind = "file"
               /\ \E i \in DOMAIN Args(e) :
                      Removable(e, i) /\ Key(path_resolve(Args(e)[i], Wd(e))) = k

\* Such an rm deleted a file under the directory before it got to the
\* directory.
C3_Witness ==
    \E e \in Entries :
        /\ RmPlain(e) /\ e.code = 1
        /\ \E d \in NonEmptyDirs(e) :
               \E k \in (DOMAIN Before(e)) \ DOMAIN e.post : Under(d, k)

(* -------------------------------- C4 ---------------------------------- *)

\* An mv of two sources or more whose destination is no directory.
MvManyToNoDir(e) ==
    /\ Is(e, T_mv) /\ Len(Args(e)) >= 3
    /\ ~isdir(Before(e), path_resolve(Args(e)[Len(Args(e))], Wd(e)))

\* C4: such an mv returns the stderr "mv: target is not a directory\n" and
\* the exit code 1, and the filesystem is as it was, whether its sources
\* are there or not.
C4_TargetNotDirectory ==
    \A e \in Entries : MvManyToNoDir(e) =>
        /\ e.err = <<"mv: target is not a directory\n">>
        /\ e.out = <<>>
        /\ e.code = 1
        /\ e.post = Before(e)

\* Such an mv, both of whose sources are there, to a destination that is a
\* file.
C4_Witness ==
    \E e \in Entries :
        /\ MvManyToNoDir(e) /\ e.code = 1
        /\ isfile(Before(e), path_resolve(Args(e)[Len(Args(e))], Wd(e)))
        /\ \A i \in 1..(Len(Args(e)) - 1) :
               exists(Before(e), path_resolve(Args(e)[i], Wd(e)))

(* -------------------------------- C5 ---------------------------------- *)

\* cp -r srcdir destdir: srcdir is a directory, and nothing is at destdir,
\* a place outside srcdir and under no file.
CpTreeToNew(e) ==
    /\ Is(e, T_cp) /\ Len(Args(e)) = 3 /\ Args(e)[1] = T_dash_r
    /\ isdir(Before(e), path_resolve(Args(e)[2], Wd(e)))
    /\ ~exists(Before(e), path_resolve(Args(e)[3], Wd(e)))
    /\ ~IsPrefix(Key(path_resolve(Args(e)[2], Wd(e))),
                 Key(path_resolve(Args(e)[3], Wd(e))))
    /\ \A m \in DOMAIN Before(e) :
           IsPrefix(m, Key(path_resolve(Args(e)[3], Wd(e))))
               => Before(e)[m].kind = "dir"

\* The entry under dst that answers to the entry m under src.
Mirror(src, dst, m) == dst \o SubSeq(m, Len(src) + 1, Len(m))

\* C5, of a destdir outside srcdir and under no file: the cp returns the exit code 0;
\* destdir is a directory; for
\* every entry srcdir/x there is an entry destdir/x of the same kind and
\* content; and the entries of srcdir are as they were.
C5_CopiesTreeToDest ==
    \A e \in Entries : CpTreeToNew(e) =>
        LET src == Key(path_resolve(Args(e)[2], Wd(e)))
            dst == Key(path_resolve(Args(e)[3], Wd(e)))
        IN  /\ e.code = 0
            /\ dst \in DOMAIN e.post /\ e.post[dst].kind = "dir"
            /\ \A m \in Subtree(Before(e), src) \ {src} :
                   /\ Mirror(src, dst, m) \in DOMAIN e.post
                   /\ e.post[Mirror(src, dst, m)] = Before(e)[m]
            /\ \A m \in Subtree(Before(e), src) :
                   m \in DOMAIN e.post /\ e.post[m] = Before(e)[m]

(* -------------------------------- C6 ---------------------------------- *)

\* echo w1 .. wn > f, then cat f: the words are none of them > or >>, the
\* parent of f is a directory, and f is not one.
EchoThenCat ==
    /\ Len(log) = 2
    /\ Is(log[1], T_echo) /\ Len(Args(log[1])) >= 2
    /\ Args(log[1])[Len(Args(log[1])) - 1] = T_gt
    /\ \A i \in 1..(Len(Args(log[1])) - 2) : Args(log[1])[i] \notin {T_gt, T_gtgt}
    /\ Is(log[2], T_cat)
    /\ Args(log[2]) = <<Args(log[1])[Len(Args(log[1]))]>>
    /\ Wd(log[2]) = Wd(log[1])
    /\ ~isdir(Before(log[1]), path_resolve(Args(log[2])[1], Wd(log[1])))
    /\ isdir(Before(log[1]), dirname(path_resolve(Args(log[2])[1], Wd(log[1]))))

\* C6: the cat returns the exit code 0 and, as stdout, the words joined by
\* single spaces and one newline after them.
C6_EchoCatRoundTrip ==
    EchoThenCat =>
        /\ log[2].code = 0
        /\ log[2].out =
               str_join(<<SP>>, SubSeq(Args(log[1]), 1, Len(Args(log[1])) - 2))
               \o <<LF>>

(* -------------------------------- C7 ---------------------------------- *)

\* The directory a cd is to change to.
CdTarget(e) ==
    IF Args(e) = <<>> THEN expanduser(e.HOME) ELSE path_resolve(Args(e)[1], Wd(e))

\* C7: a cd that returns the exit code 0 returns a working directory that
\* is absolute, is normalized and names a directory that exists; a cd
\* whose target is missing or is no directory returns the exit code 1 and
\* the working directory it was given.
C7_CdNormalizedExisting ==
    \A e \in Entries : Is(e, T_cd) =>
        /\ e.code = 0 =>
               /\ isabs(e.newcwd)
               /\ normpath(e.newcwd) = e.newcwd
               /\ isdir(e.post, e.newcwd)
        /\ ~isdir(Before(e), CdTarget(e)) => e.code = 1 /\ e.newcwd = Wd(e)

(* -------------------------------- C8 ---------------------------------- *)

\* C8: a call returns the exit code 127 exactly when the first token of
\* its line is no name of the table; it then returns no stdout, the stderr
\* "Command not found: <name>\n" and the working directory it works in,
\* and the filesystem is as it was.
C8_NotFoundExactly ==
    \A e \in Entries : Returned(e) =>
        /\ e.code = 127 <=> Dispatched(e) /\ Cmd(e) \notin CommandTable
        /\ e.code = 127 =>
               /\ e.out = <<>>
               /\ e.err = <<"Command not found: ">> \o Cmd(e) \o <<LF>>
               /\ e.newcwd = Wd(e)
               /\ e.post = Before(e)
               /\ e.cwd # None => e.post = e.pre

\* A line whose first token is a name of the table but for its case, with
\* arguments a command of the table would act on, was not found.
C8_Witness ==
    \E e \in Entries :
        /\ e.code = 127 /\ Cmd(e) = <<"L", "S">> /\ Args(e) = <<T_dash_r, N_a>>
        /\ e.cwd # None /\ N_a \in {k[1] : k \in (DOMAIN e.pre) \ {Root}}

(* -------------------------------- C9 ---------------------------------- *)

\* The nearest ancestor of key that exists.
RECURSIVE NearestAncestor(_, _)
NearestAncestor(f, key) ==
    IF Front(key) \in DOMAIN f THEN Front(key) ELSE NearestAncestor(f, Front(key))

\* mkdir p, of a p that is not there and whose nearest existing ancestor is
\* a directory, then the same mkdir p again.
MkdirTwice ==
    /\ Len(log) = 2
    /\ Is(log[1], T_mkdir) /\ Len(Args(log[1])) = 1
    /\ log[2].raw = log[1].raw /\ Wd(log[2]) = Wd(log[1])
    /\ Key(path_resolve(Args(log[1])[1], Wd(log[1]))) \notin DOMAIN Before(log[1])
    /\ Before(log[1])[NearestAncestor(Before(log[1]),
           Key(path_resolve(Args(log[1])[1], Wd(log[1]))))].kind = "dir"

\* C9: the first mkdir returns the exit code 0 and makes p and the parents
\* of p that are missing, and nothing else; the second returns the exit
\* code 1 (the directory exists) and leaves the filesystem as the first
\* left it.
C9_MkdirTwice ==
    MkdirTwice =>
        LET p == Key(path_resolve(Args(log[1])[1], Wd(log[1]))) IN
        /\ log[1].code = 0
        /\ DOMAIN log[1].post =
               DOMAIN Before(log[1]) \cup {SubSeq(p, 1, n) : n \in 1..Len(p)}
        /\ \A k \in DOMAIN log[1].post :
               log[1].post[k] = IF k \in DOMAIN Before(log[1])
                                THEN Before(log[1])[k] ELSE Dir
        /\ log[2].code = 1
        /\ log[2].err = <<"mkdir: cannot create directory '">> \o Args(log[1])[1]
                        \o <<"': File exists\n">>
        /\ log[2].pre = log[1].post
        /\ log[2].post = log[1].post

\* It was done for a p whose parent was missing too.
C9_Witness ==
    /\ MkdirTwice
    /\ Front(Key(path_resolve(Args(log[1])[1], Wd(log[1])))) \notin DOMAIN Before(log[1])
    /\ log[2].code = 1

(* -------------------------------- C10 --------------------------------- *)

\* The commands that create, change or delete entries.
Mutating(e) ==
    /\ Dispatched(e)
    /\ \/ Cmd(e) \in {T_mkdir, T_rm, T_rmdir, T_touch, T_mv, T_cp}
       \/ Cmd(e) = T_echo /\ (InSeq(T_gt, Args(e)) \/ InSeq(T_gtgt, Args(e)))

\* C10: a call that passes a working directory and whose command is none
\* of mkdir, rm, rmdir, touch, mv, cp and echo with a > or >> token leaves
\* the filesystem as it was, whatever its arguments.
C10_OnlyMutatorsMutate ==
    \A e \in Entries : e.cwd # None /\ ~Mutating(e) => e.post = e.pre

\* head of a path where nothing is: the call fails and nothing is made
\* there.
C10_Witness ==
    \E e \in Entries :
        /\ e.cwd # None /\ Is(e, T_head) /\ Len(Args(e)) = 1 /\ e.code = 1
        /\ ~exists(e.pre, path_resolve(Args(e)[1], e.cwd))
        /\ isdir(e.pre, dirname(path_resolve(Args(e)[1], e.cwd)))

====
